---- MODULE Spec2Model ----
(***************************************************************************)
(* GraphiteEngine: the WebGPU renderer (WebGPURender.ts) and the mesh      *)
(* vertex-buffer cache (WebGPUMesh, in Math/Vector3.ts) as a state         *)
(* machine.  The host event loop is single threaded: every handler runs to *)
(* completion, so each handler is one action.                              *)
(***************************************************************************)
EXTENDS Integers, Sequences, FiniteSets, TLC

(* ------------------------------ bounds --------------------------------- *)
\* longest actor list handed to render()
MaxActors == 2
\* longest vertex list (in floats) a mesh is grown to
MaxFloats == 16
\* number of GPU vertex buffers built for one mesh
MaxBuffers == 2
\* number of distinct host window sizes
MaxSize == 2
\* longest list of values handed to the bind-group builder
MaxResources == 2
\* number of readFile calls
MaxRequests == 2

(* ------------------------- program constants --------------------------- *)
\* Float32Array element size: tf.byteLength = 4 * length
BytesPerFloat == 4
\* POSITION UV NORMAL: 3 + 2 + 3 floats per vertex
FloatsPerVertex == 8

(* ------------------------------ values --------------------------------- *)
Null == "null"

\* the actors of the scene; the cameras are actors too
Actors == {"a1", "cam1", "cam2"}
Cameras == {"cam1", "cam2"}

\* "no GPUBuffer" (vertexBuffer = null).  A GPUBuffer is known by the mesh
\* that built it and its number among the buffers of that mesh (>= 1).
NoBuffer == [mesh |-> Null, id |-> 0, size |-> 0, data |-> <<>>]
\* "no GPUTextureView" (depthView = null)
NoView == [present |-> FALSE, size |-> 0]

\* Vertex objects handed to addVertex: position, uv, normal
VertexA == [position |-> <<1, 2, 3>>, uv |-> <<4, 5>>, normal |-> <<6, 7, 8>>]
VertexB == [position |-> <<11, 12, 13>>, uv |-> <<14, 15>>, normal |-> <<16, 17, 18>>]

getPosition(vert) == vert.position
getUV(vert) == vert.uv
getNormal(vert) == vert.normal

VARIABLES
    pc,                     \* position of the promise chain started by setup()
    usePostProcessing,
    adapter,
    device,
    context,
    postProcessingContext,
    postProcessingPipeline,
    depthView,
    sampler,
    quadMesh,
    listener,               \* window "resize" listener registered
    renderingCanvas,
    postProcessingRenderingCanvas,
    windowSize,             \* the host window's current size
    finalizeCalls,          \* number of times finalize was entered
    meshes,                 \* actor -> its WebGPUMesh
    lastCall,               \* what the most recent call did
    requests                \* the XMLHttpRequests of the readFile calls

rendererVars == <<pc, usePostProcessing, adapter, device, context,
                  postProcessingContext, postProcessingPipeline, depthView,
                  sampler, quadMesh, listener, renderingCanvas,
                  postProcessingRenderingCanvas, windowSize, finalizeCalls>>
vars == <<rendererVars, meshes, lastCall, requests>>

(* ------------------------------ WebGPUMesh ------------------------------ *)
\* new WebGPUMesh(); built counts the buffers createBuffer has made for it
NewMesh(name) ==
    [name |-> name, vertices |-> <<>>, vertexBuffer |-> NoBuffer, built |-> 0]

\* new Float32Array(t): one 4-byte element per number.  The numbers of the
\* model are small integers, which float32 represents exactly.
Float32Array(t) == [byteLength |-> Len(t) * BytesPerFloat, data |-> t]

\* generateVertexBuffer(device, t): createBuffer of tf.byteLength, writeBuffer,
\* store in this.vertexBuffer
generateVertexBuffer(mesh, t) ==
    LET tf == Float32Array(t)
        buffer == [mesh |-> mesh.name, id |-> mesh.built + 1,
                   size |-> tf.byteLength, data |-> tf.data]
    IN  [mesh |-> [mesh EXCEPT !.vertexBuffer = buffer, !.built = @ + 1],
         ret |-> buffer, created |-> 1, writes |-> 1]

\* faulty variant: the cache is ignored and a buffer is built on every call
getVertexBufferNoCache(mesh) == generateVertexBuffer(mesh, mesh.vertices)

\* getVertexBuffer(device)
getVertexBuffer(mesh) ==
    IF mesh.vertexBuffer # NoBuffer
    THEN [mesh |-> mesh, ret |-> mesh.vertexBuffer, created |-> 0, writes |-> 0]
    ELSE generateVertexBuffer(mesh, mesh.vertices)

\* the loop of addVertex: push position, uv, normal of each vertex
RECURSIVE pushVertices(_, _)
pushVertices(vertices, vertex) ==
    IF vertex = <<>> THEN vertices
    ELSE pushVertices(vertices \o getPosition(Head(vertex))
                               \o getUV(Head(vertex))
                               \o getNormal(Head(vertex)),
                      Tail(vertex))

\* addVertex(...vertex)
addVertex(mesh, vertex) ==
    [mesh EXCEPT !.vertices = pushVertices(mesh.vertices, vertex)]

\* addVertexAsNumbers(...x)
addVertexAsNumbers(mesh, x) == [mesh EXCEPT !.vertices = mesh.vertices \o x]

\* setVertices(vertices)
setVertices(mesh, vertices) == [mesh EXCEPT !.vertices = vertices]

\* reset()
reset(mesh) == [mesh EXCEPT !.vertexBuffer = NoBuffer]

\* the record kept of the most recent call or event: op, the mesh it was
\* called on, its argument, the mesh before it, the returned buffer, the
\* createBuffer / writeBuffer calls it made, (for render) its inputs and
\* the GPU commands it issued, and (for a mesh call) the call before it
NoCall == [op |-> Null, target |-> Null, ret |-> NoBuffer]

Call(op, target) ==
    [op |-> op, target |-> target, ret |-> NoBuffer, created |-> 0,
     writes |-> 0, actors |-> <<>>, camera |-> Null,
     cmds |-> <<>>, before |-> NewMesh(Null), arg |-> <<>>, prev |-> NoCall,
     threw |-> FALSE]

(* ---------------------------- RenderingCanvas --------------------------- *)
\* new RenderingCanvas(): a canvas element that is not shown until
\* displayCanvas() and has no size derived from the host yet
NewRenderingCanvas == [visible |-> FALSE, size |-> 0]
displayCanvas(canvas) == [canvas EXCEPT !.visible = TRUE]
hideCanvas(canvas) == [canvas EXCEPT !.visible = FALSE]
\* RenderingCanvas.resize(): the canvas takes the host window's size
resizeCanvas(canvas, w) == [canvas EXCEPT !.size = w]

(* ------------------------------ the renderer ---------------------------- *)
\* new Vertex(new Vector3(x, y, 0.0)): uv and normal default to zero
QuadVertex(x, y) == [position |-> <<x, y, 0>>, uv |-> <<0, 0>>, normal |-> <<0, 0, 0>>]

\* faulty variant: the quad is built from four corner vertices
setupQuadMeshCorners ==
    addVertex(NewMesh("quad"), <<QuadVertex(-1, 1), QuadVertex(-1, -1),
                                 QuadVertex(1, -1), QuadVertex(1, 1)>>)

\* setupQuadMesh()
setupQuadMesh ==
    addVertex(NewMesh("quad"), <<QuadVertex(-1, 1), QuadVertex(-1, -1), QuadVertex(1, -1),
                         QuadVertex(-1, 1), QuadVertex(1, 1), QuadVertex(1, -1)>>)

\* the renderer's fields as one record
Renderer ==
    [pc |-> pc, device |-> device, context |-> context,
     postProcessingContext |-> postProcessingContext,
     postProcessingPipeline |-> postProcessingPipeline,
     depthView |-> depthView, sampler |-> sampler, quadMesh |-> quadMesh,
     listener |-> listener, renderingCanvas |-> renderingCanvas,
     postProcessingRenderingCanvas |-> postProcessingRenderingCanvas]

\* setupDepthView(device): a view of a depth texture of the rendering
\* canvas's current size
setupDepthView(r) == [present |-> TRUE, size |-> r.renderingCanvas.size]

\* faulty variant: resize drops the depth view and builds none
resizeDropsDepthView(r, w) ==
    [r EXCEPT !.renderingCanvas = resizeCanvas(r.renderingCanvas, w),
              !.postProcessingRenderingCanvas =
                    resizeCanvas(r.postProcessingRenderingCanvas, w),
              !.depthView = NoView]

\* faulty variant: resize builds the depth view before the canvases resize
resizeDepthViewFirst(r, w) ==
    [r EXCEPT !.depthView = setupDepthView(r),
              !.renderingCanvas = resizeCanvas(r.renderingCanvas, w),
              !.postProcessingRenderingCanvas =
                    resizeCanvas(r.postProcessingRenderingCanvas, w)]

\* resize(device); w is the host window's size
resize(r, w) ==
    LET r1 == [r EXCEPT !.renderingCanvas = resizeCanvas(r.renderingCanvas, w)]
        r2 == [r1 EXCEPT !.postProcessingRenderingCanvas =
                            resizeCanvas(r.postProcessingRenderingCanvas, w)]
    IN  [r2 EXCEPT !.depthView = setupDepthView(r2)]

\* faulty variant: finalize builds the depth view before the post-process context
finalizeOrderDepthFirst ==
    <<"device", "context", "depthView", "postProcessingContext",
      "postProcessingPipeline", "quadMesh", "sampler", "resize", "listener">>

\* the statements of finalize(device), in order
finalizeOrder ==
    <<"device", "context", "postProcessingContext", "postProcessingPipeline",
      "depthView", "quadMesh", "sampler", "resize", "listener">>

\* the statements of finalize that throw: setupContext, when the canvas
\* yields no "webgpu" context
ThrowingSteps == {"context", "postProcessingContext"}

\* one statement of finalize
finalizeStep(r, s, w) ==
    CASE s = "device" -> [r EXCEPT !.device = "device"]
      [] s = "context" -> [r EXCEPT !.context = "context"]
      [] s = "postProcessingContext" ->
             [r EXCEPT !.postProcessingContext = "postProcessingContext"]
      [] s = "postProcessingPipeline" ->
             [r EXCEPT !.postProcessingPipeline = "postProcessingPipeline"]
      [] s = "depthView" -> [r EXCEPT !.depthView = setupDepthView(r)]
      [] s = "quadMesh" -> [r EXCEPT !.quadMesh = setupQuadMesh]
      [] s = "sampler" -> [r EXCEPT !.sampler = "sampler"]
      [] s = "resize" -> resize(r, w)
      [] s = "listener" -> [r EXCEPT !.listener = TRUE]

\* finalize(device): the statements run in order until one throws
RECURSIVE finalizeFrom(_, _, _, _)
finalizeFrom(r, steps, failAt, w) ==
    IF steps = <<>> THEN [r EXCEPT !.pc = "finalized"]
    ELSE IF Head(steps) = failAt THEN [r EXCEPT !.pc = "finalizeThrew"]
    ELSE finalizeFrom(finalizeStep(r, Head(steps), w), Tail(steps), failAt, w)

finalize(r, failAt, w) == finalizeFrom(r, finalizeOrder, failAt, w)

\* faulty variant: getDevice returns the field without a check
getDeviceUnchecked(r) == [threw |-> FALSE, ret |-> <<r.device>>]

\* getDevice(): throws "Error: Device not found" while the device is unset
getDevice(r) ==
    IF r.device = Null THEN [threw |-> TRUE, ret |-> <<>>]
    ELSE [threw |-> FALSE, ret |-> <<r.device>>]

(* -------------------------------- render -------------------------------- *)
\* a GPU resource handed to the bind-group builder
Resource(kind, label, owner) == [kind |-> kind, label |-> label, owner |-> owner]

\* getBindGroupEntryResource(entry)
getBindGroupEntryResource(entry) ==
    IF entry.kind = "buffer" THEN [as |-> "bufferBinding", of |-> entry]
    ELSE IF entry.kind = "texture" THEN [as |-> "textureView", of |-> entry]
    ELSE [as |-> "entry", of |-> entry]

\* no bind group; threw tells whether building one raised an error
NoGroup == [pipeline |-> Null, layout |-> 0, entries |-> <<>>, threw |-> FALSE]

\* what device.createBindGroup takes as the resource of an entry: a buffer
\* binding, a texture view or a sampler
IsBindingResource(resource) ==
    \/ resource.as \in {"bufferBinding", "textureView"}
    \/ resource.as = "entry" /\ resource.of.kind \in {"sampler", "textureView"}

\* device.createBindGroup({layout, entries}): the platform raises a TypeError
\* for an entry whose resource is not a binding resource
createBindGroup(pipeline, layout, entries) ==
    IF \A i \in DOMAIN entries : IsBindingResource(entries[i].resource)
    THEN [pipeline |-> pipeline, layout |-> layout, entries |-> entries,
          threw |-> FALSE]
    ELSE [NoGroup EXCEPT !.threw = TRUE]

\* faulty variant: the slots are numbered from 1
setupUniformBindGroupFromOne(pipeline, bindingIndex, buffers) ==
    createBindGroup(pipeline, bindingIndex,
        [i \in 1..Len(buffers) |->
            [binding |-> i,
             resource |-> getBindGroupEntryResource(buffers[i])]])

\* setupUniformBindGroup(device, pipeline, bindingIndex, ...buffers)
setupUniformBindGroup(pipeline, bindingIndex, buffers) ==
    createBindGroup(pipeline, bindingIndex,
        [i \in 1..Len(buffers) |->
            [binding |-> i - 1,
             resource |-> getBindGroupEntryResource(buffers[i])]])

\* the attachments of a pass that none has been begun for
NoClear == [color |-> <<>>, colorLoadOp |-> Null, depth |-> 0, depthLoadOp |-> Null]

\* one call on the device, the command encoder, the pass encoder or the queue
Cmd(c) ==
    [cmd |-> c, pipeline |-> Null, buffer |-> NoBuffer, group |-> NoGroup,
     vertexCount |-> <<0, 0>>, view |-> NoView, surface |-> Null,
     clear |-> NoClear]

\* getTextureView(context): context.getCurrentTexture().createView()
getTextureView(ctx) == [Cmd("getCurrentTexture") EXCEPT !.surface = ctx]

\* getPassEncoder(commandEncoder, view, depthView): the color attachment is
\* view, cleared to 0.09/0.09/0.09/1.0, the depth attachment is depth,
\* cleared to 1.0; the values are in hundredths
getPassEncoder(view, depth) ==
    [Cmd("beginRenderPass") EXCEPT
        !.surface = view.surface, !.view = depth,
        !.clear = [color |-> <<9, 9, 9, 100>>, colorLoadOp |-> "clear",
                   depth |-> 100, depthLoadOp |-> "clear"]]

\* faulty variant: the count is taken from the size of the cached buffer
vertexCountFromBuffer(mesh) ==
    <<mesh.vertexBuffer.size \div (BytesPerFloat * FloatsPerVertex),
      (mesh.vertexBuffer.size \div BytesPerFloat) % FloatsPerVertex>>

\* mesh.getVertices().length / (3 + 2 + 3): the quotient as <<whole, eighths>>
vertexCount(mesh) ==
    <<Len(mesh.vertices) \div FloatsPerVertex, Len(mesh.vertices) % FloatsPerVertex>>

\* draw(passEncoder, pipeline, mesh, vertexBuffer, uniformBindingGroup)
draw(pipeline, mesh, vertexBuffer, uniformBindingGroup) ==
    << [Cmd("setPipeline") EXCEPT !.pipeline = pipeline],
       [Cmd("setVertexBuffer") EXCEPT !.buffer = vertexBuffer],
       [Cmd("setBindGroup") EXCEPT !.group = uniformBindingGroup],
       [Cmd("draw") EXCEPT !.pipeline = pipeline, !.buffer = vertexBuffer,
                           !.vertexCount = vertexCount(mesh)] >>

\* renderActor(actor, camera, passEncoder, device); acc threads the meshes
\* and the commands recorded so far
renderActor(actor, camera, acc) ==
    LET g == getVertexBuffer(acc.meshes[actor])
        ms == [acc.meshes EXCEPT ![actor] = g.mesh]
        mActorBuffer == Resource("buffer", "transformationMatrix", actor)
        mViewBuffer == Resource("buffer", "viewTransformationMatrix", camera)
        mProjBuffer == Resource("buffer", "projectionBuffer", camera)
        mActorRotBuffer == Resource("buffer", "rotationMatrix", actor)
        uniformBindingGroup ==
            setupUniformBindGroup(actor, 0, <<mActorBuffer, mViewBuffer,
                                              mProjBuffer, mActorRotBuffer>>)
    IN  [meshes |-> ms,
         cmds |-> acc.cmds \o draw(actor, ms[actor], g.ret, uniformBindingGroup),
         created |-> acc.created + g.created + 3,
         writes |-> acc.writes + g.writes + 3]

\* faulty variant: no actor is taken for the camera
isCameraNever(actor, camera) == FALSE

\* the test of the loop in render: actor != camera, by identity
isCamera(actor, camera) == actor = camera

\* faulty variant: the actors are walked from the last to the first
RECURSIVE renderActorsReversed(_, _, _)
renderActorsReversed(actors, camera, acc) ==
    IF actors = <<>> THEN acc
    ELSE renderActorsReversed(
             SubSeq(actors, 1, Len(actors) - 1), camera,
             IF isCamera(actors[Len(actors)], camera) THEN acc
             ELSE renderActor(actors[Len(actors)], camera, acc))

\* for(let actor of actors) if(actor != camera) this.renderActor(...)
RECURSIVE renderActors(_, _, _)
renderActors(actors, camera, acc) ==
    IF actors = <<>> THEN acc
    ELSE renderActors(Tail(actors), camera,
                      IF isCamera(Head(actors), camera) THEN acc
                      ELSE renderActor(Head(actors), camera, acc))

\* faulty variant: render has no early return
renderGuardMissing(r) == TRUE

\* the early return of render: device, context and depthView are all set
renderGuard(r) == r.device # Null /\ r.context # Null /\ r.depthView # NoView

\* faulty variant: the command buffer is submitted before the pass is ended
renderEndSubmitFirst == <<Cmd("submit"), Cmd("end")>>

\* the tail of render: passEncoder.end(), queue.submit
renderEnd == <<Cmd("end"), Cmd("submit")>>

\* render(actors, camera)
render(r, actors, camera, ms) ==
    IF ~renderGuard(r)
    THEN [meshes |-> ms, cmds |-> <<>>, created |-> 0, writes |-> 0]
    ELSE LET view == getTextureView(r.context)
             begin == << Cmd("createCommandEncoder"), view,
                         getPassEncoder(view, r.depthView) >>
             done == renderActors(actors, camera,
                         [meshes |-> ms, cmds |-> begin,
                          created |-> 0, writes |-> 0])
         IN  [done EXCEPT !.cmds = @ \o renderEnd]

\* renderPostProcessing(device, context, depthView, pipeline, frameTexture,
\* sampler), called with the renderer's own post-process context, depth
\* view, post-process pipeline and sampler
renderPostProcessing(r, frameTexture) ==
    LET view == getTextureView(r.postProcessingContext)
        begin == << Cmd("createCommandEncoder"), view,
                    getPassEncoder(view, r.depthView) >>
        uniformBindingGroup ==
            setupUniformBindGroup(r.postProcessingPipeline, 0,
                <<frameTexture, Resource("sampler", r.sampler, Null)>>)
        g == getVertexBuffer(r.quadMesh)
    IN  [quadMesh |-> g.mesh,
         cmds |-> begin \o draw(r.postProcessingPipeline, g.mesh, g.ret,
                                uniformBindingGroup) \o renderEnd,
         created |-> g.created, writes |-> g.writes]

(* ------------------------------ FileReader ------------------------------ *)
\* faulty variant: the handler does not test readyState
onreadystatechangeAnyState(x) ==
    IF x.status = 200 THEN [x EXCEPT !.calls = Append(@, x.responseText)]
    ELSE x

\* XHR.onreadystatechange: callback(this.responseText) when the request is
\* DONE (readyState 4) with status 200; calls lists the arguments the
\* callback has been invoked with
onreadystatechange(x) ==
    IF x.readyState = 4 /\ x.status = 200
    THEN [x EXCEPT !.calls = Append(@, x.responseText)]
    ELSE x

\* readFile(path, callback) up to its return: the request is opened (1) and
\* sent, and the handler is set; no event has been delivered yet
readFile(path) ==
    [path |-> path, readyState |-> 1, status |-> 0, responseText |-> "",
     calls |-> <<>>]

\* the host moves the request to readyState rs and fires readystatechange
fire(x, rs, status, text) ==
    onreadystatechange([x EXCEPT !.readyState = rs, !.status = status,
                                 !.responseText = text])

(* ------------------------------- inputs --------------------------------- *)
Sizes == 1..MaxSize

\* the sequences over S of length at most n
SeqsUpTo(S, n) == UNION {[1..k -> S] : k \in 0..n}

ActorLists == SeqsUpTo(Actors, MaxActors)

\* arguments of the mesh calls
VertexLists == {<<VertexA>>, <<VertexA, VertexB>>}
NumberLists == {<<21, 22, 23>>}
VertexContents == {<<>>, pushVertices(<<>>, <<VertexB>>)}

\* the mesh whose content the scene changes
MeshTargets == {"a1"}

\* the values handed to the bind-group builder: a buffer, a texture, a
\* sampler, a texture view (a binding resource already) and a value that is
\* no GPU object at all
\* the textures handed to the composite pass as the scene's frame
FrameTextures == {Resource("texture", l, "context") : l \in {"frame1", "frame2"}}

\* the files asked for and the status codes a server answers with
Paths == {"cube.obj", "quad.obj"}
Statuses == {200, 304, 404}

ResourceKinds == {"buffer", "texture", "sampler", "textureView", "other"}
ResourceLists == SeqsUpTo({Resource(k, k, Null) : k \in ResourceKinds}, MaxResources)
GroupIndexes == {0, 1}

(* -------------------------------- Init ---------------------------------- *)
\* the state when the constructor returns: setup() has asked for the adapter
Init ==
    /\ pc = "adapterPending"
    /\ usePostProcessing = FALSE
    /\ device = Null
    /\ adapter = Null
    /\ context = Null
    /\ postProcessingContext = Null
    /\ postProcessingPipeline = Null
    /\ depthView = NoView
    /\ sampler = Null
    /\ renderingCanvas = displayCanvas(NewRenderingCanvas)
    /\ postProcessingRenderingCanvas = NewRenderingCanvas
    /\ quadMesh = setupQuadMesh
    /\ listener = FALSE
    /\ windowSize \in Sizes
    /\ finalizeCalls = 0
    /\ meshes = [a \in Actors |-> NewMesh(a)]
    /\ lastCall = Call("new", Null)
    /\ requests = <<>>

(* -------------------------- renderer actions ---------------------------- *)
SetRenderer(r) ==
    /\ pc' = r.pc
    /\ device' = r.device
    /\ context' = r.context
    /\ postProcessingContext' = r.postProcessingContext
    /\ postProcessingPipeline' = r.postProcessingPipeline
    /\ depthView' = r.depthView
    /\ sampler' = r.sampler
    /\ quadMesh' = r.quadMesh
    /\ listener' = r.listener
    /\ renderingCanvas' = r.renderingCanvas
    /\ postProcessingRenderingCanvas' = r.postProcessingRenderingCanvas

\* faulty variant: the then-callback stores the adapter and asks for no device
SetupAdapterDoneNoDevice(ok) ==
    /\ pc = "adapterPending"
    /\ IF ok THEN adapter' = "adapter" /\ pc' = "adapterStored"
             ELSE adapter' = adapter /\ pc' = "adapterRejected"
    /\ UNCHANGED <<usePostProcessing, device, context, postProcessingContext,
                   postProcessingPipeline, depthView, sampler, quadMesh, listener,
                   renderingCanvas, postProcessingRenderingCanvas, windowSize,
                   finalizeCalls, meshes, requests>>
    /\ lastCall' = Call("setupAdapter", Null)

\* setupAdapter() settles: the then-callback of setup stores the adapter and
\* asks for the device; a null adapter or a rejection ends the chain
SetupAdapterDone(ok) ==
    /\ pc = "adapterPending"
    /\ IF ok THEN adapter' = "adapter" /\ pc' = "devicePending"
             ELSE adapter' = adapter /\ pc' = "adapterRejected"
    /\ UNCHANGED <<usePostProcessing, device, context, postProcessingContext,
                   postProcessingPipeline, depthView, sampler, quadMesh, listener,
                   renderingCanvas, postProcessingRenderingCanvas, windowSize,
                   finalizeCalls, meshes, requests>>
    /\ lastCall' = Call("setupAdapter", Null)

\* faulty variant: finalize is also the rejection callback of setupDevice
SetupDeviceRejectedThenFinalize ==
    /\ pc = "devicePending"
    /\ finalizeCalls' = finalizeCalls + 1
    /\ SetRenderer([finalize(Renderer, "none", windowSize) EXCEPT
                        !.pc = "deviceRejected"])
    /\ UNCHANGED <<usePostProcessing, adapter, windowSize, meshes, requests>>
    /\ lastCall' = Call("setupDevice", Null)

\* setupDevice(adapter) is rejected: the chain ends, finalize never runs
SetupDeviceRejected ==
    /\ pc = "devicePending"
    /\ pc' = "deviceRejected"
    /\ UNCHANGED <<usePostProcessing, adapter, device, context,
                   postProcessingContext, postProcessingPipeline, depthView,
                   sampler, quadMesh, listener, renderingCanvas,
                   postProcessingRenderingCanvas, windowSize, finalizeCalls,
                   meshes, requests>>
    /\ lastCall' = Call("setupDevice", Null)

\* setupDevice(adapter) is fulfilled and its then-callback finalize(device)
\* runs; failAt is the statement that throws, if any
Finalize(failAt) ==
    /\ pc = "devicePending"
    /\ finalizeCalls' = finalizeCalls + 1
    /\ SetRenderer(finalize(Renderer, failAt, windowSize))
    /\ lastCall' = [Call("finalize", Null) EXCEPT !.arg = <<failAt>>]
    /\ UNCHANGED <<usePostProcessing, adapter, windowSize, meshes, requests>>

\* the host window takes size w; the "resize" listener, when registered,
\* runs resize(device)
WindowResize(w) ==
    /\ w # windowSize
    /\ windowSize' = w
    /\ SetRenderer(IF listener THEN resize(Renderer, w) ELSE Renderer)
    /\ lastCall' = [Call("resize", Null) EXCEPT !.arg = <<w>>]
    /\ UNCHANGED <<usePostProcessing, adapter, finalizeCalls, meshes, requests>>

\* faulty variant: turning post-processing on leaves the rendering canvas shown
setUsePostProcessingNoHide(use, canvas, ppCanvas) ==
    IF use
    THEN [use |-> use, canvas |-> canvas, ppCanvas |-> displayCanvas(ppCanvas)]
    ELSE [use |-> use, canvas |-> displayCanvas(canvas), ppCanvas |-> hideCanvas(ppCanvas)]

\* setUsePostProcessing(use)
setUsePostProcessing(use, canvas, ppCanvas) ==
    IF use
    THEN [use |-> use, canvas |-> hideCanvas(canvas), ppCanvas |-> displayCanvas(ppCanvas)]
    ELSE [use |-> use, canvas |-> displayCanvas(canvas), ppCanvas |-> hideCanvas(ppCanvas)]

\* faulty variant: the toggle also runs setupSampler
SetUsePostProcessingRebuilds(use) ==
    LET out == setUsePostProcessing(use, renderingCanvas, postProcessingRenderingCanvas)
    IN  /\ usePostProcessing' = out.use
        /\ renderingCanvas' = out.canvas
        /\ postProcessingRenderingCanvas' = out.ppCanvas
        /\ sampler' = "sampler"
        /\ lastCall' = [Call("setUsePostProcessing", Null) EXCEPT
                            !.arg = <<use>>, !.created = 1]
        /\ UNCHANGED <<pc, adapter, device, context, postProcessingContext,
                       postProcessingPipeline, depthView, quadMesh,
                       listener, windowSize, finalizeCalls, meshes, requests>>

SetUsePostProcessing(use) ==
    LET out == setUsePostProcessing(use, renderingCanvas, postProcessingRenderingCanvas)
    IN  /\ usePostProcessing' = out.use
        /\ renderingCanvas' = out.canvas
        /\ postProcessingRenderingCanvas' = out.ppCanvas
        /\ lastCall' = [Call("setUsePostProcessing", Null) EXCEPT !.arg = <<use>>]
        /\ UNCHANGED <<pc, adapter, device, context, postProcessingContext,
                       postProcessingPipeline, depthView, sampler, quadMesh,
                       listener, windowSize, finalizeCalls, meshes, requests>>

\* getDevice()
GetDevice ==
    /\ \E out \in {getDevice(Renderer)} :
           lastCall' = [Call("getDevice", Null) EXCEPT
                            !.threw = out.threw, !.arg = out.ret]
    /\ UNCHANGED <<rendererVars, meshes, requests>>

\* render(actors, camera)
Render(actors, camera) ==
    \E out \in {render(Renderer, actors, camera, meshes)} :
        /\ \A a \in Actors : out.meshes[a].built <= MaxBuffers
        /\ meshes' = out.meshes
        /\ lastCall' = [Call("render", Null) EXCEPT
                            !.actors = actors, !.camera = camera,
                            !.cmds = out.cmds, !.created = out.created,
                            !.writes = out.writes]
        /\ UNCHANGED <<rendererVars, requests>>

\* setupUniformBindGroup(device, pipeline, bindingIndex, ...buffers), called
\* with the renderer's device and its post-process pipeline
BuildBindGroup(bindingIndex, buffers) ==
    /\ device # Null
    /\ postProcessingPipeline # Null
    /\ \E g \in {setupUniformBindGroup(postProcessingPipeline, bindingIndex, buffers)} :
           lastCall' = [Call("setupUniformBindGroup", Null) EXCEPT
                            !.arg = buffers, !.threw = g.threw,
                            !.created = IF g.threw THEN 0 ELSE 1,
                            !.cmds = <<[Cmd("createBindGroup") EXCEPT !.group = g]>>]
    /\ UNCHANGED <<rendererVars, meshes, requests>>

\* renderPostProcessing(...), called once the renderer holds all it takes
RenderPostProcessing(frameTexture) ==
    /\ device # Null
    /\ postProcessingContext # Null
    /\ depthView # NoView
    /\ postProcessingPipeline # Null
    /\ sampler # Null
    /\ \E out \in {renderPostProcessing(Renderer, frameTexture)} :
           /\ out.quadMesh.built <= MaxBuffers
           /\ quadMesh' = out.quadMesh
           /\ lastCall' = [Call("renderPostProcessing", Null) EXCEPT
                               !.arg = <<frameTexture>>, !.cmds = out.cmds,
                               !.created = out.created, !.writes = out.writes]
    /\ UNCHANGED <<pc, usePostProcessing, adapter, device, context,
                   postProcessingContext, postProcessingPipeline, depthView,
                   sampler, listener, renderingCanvas,
                   postProcessingRenderingCanvas, windowSize, finalizeCalls,
                   meshes, requests>>

(* ---------------------------- mesh actions ------------------------------ *)
\* the record of a call on the mesh of actor m
MeshCall(op, m) ==
    [Call(op, m) EXCEPT
        !.before = meshes[m],
        !.prev = [op |-> lastCall.op, target |-> lastCall.target, ret |-> lastCall.ret]]

\* mesh.getVertexBuffer(device), called on the mesh of actor m
GetVertexBuffer(m) ==
    \E g \in {getVertexBuffer(meshes[m])} :
        /\ g.mesh.built <= MaxBuffers
        /\ meshes' = [meshes EXCEPT ![m] = g.mesh]
        /\ lastCall' = [MeshCall("getVertexBuffer", m) EXCEPT
                            !.ret = g.ret, !.created = g.created,
                            !.writes = g.writes]
        /\ UNCHANGED <<rendererVars, requests>>

\* mesh.addVertex(...vertex)
AddVertex(m, vertex) ==
    /\ Len(meshes[m].vertices) + FloatsPerVertex * Len(vertex) <= MaxFloats
    /\ meshes' = [meshes EXCEPT ![m] = addVertex(meshes[m], vertex)]
    /\ lastCall' = [MeshCall("addVertex", m) EXCEPT !.arg = vertex]
    /\ UNCHANGED <<rendererVars, requests>>

\* mesh.addVertexAsNumbers(...x)
AddVertexAsNumbers(m, x) ==
    /\ Len(meshes[m].vertices) + Len(x) <= MaxFloats
    /\ meshes' = [meshes EXCEPT ![m] = addVertexAsNumbers(meshes[m], x)]
    /\ lastCall' = [MeshCall("addVertexAsNumbers", m) EXCEPT !.arg = x]
    /\ UNCHANGED <<rendererVars, requests>>

\* mesh.setVertices(vertices)
SetVertices(m, vertices) ==
    /\ meshes' = [meshes EXCEPT ![m] = setVertices(meshes[m], vertices)]
    /\ lastCall' = [MeshCall("setVertices", m) EXCEPT !.arg = vertices]
    /\ UNCHANGED <<rendererVars, requests>>

\* the callback handed to objLoader.load by from(path): this.reset()
Reset(m) ==
    /\ meshes' = [meshes EXCEPT ![m] = reset(meshes[m])]
    /\ lastCall' = MeshCall("reset", m)
    /\ UNCHANGED <<rendererVars, requests>>

(* ------------------------- FileReader actions --------------------------- *)
\* readFile(path, callback)
ReadFile(path) ==
    /\ Len(requests) < MaxRequests
    /\ requests' = Append(requests, readFile(path))
    /\ UNCHANGED <<rendererVars, meshes, lastCall>>

\* the response's headers arrive: readyState 2, the status is known
HeadersReceived(i, status) ==
    /\ i \in DOMAIN requests
    /\ requests[i].readyState = 1
    /\ requests' = [requests EXCEPT ![i] = fire(@, 2, status, "")]
    /\ UNCHANGED <<rendererVars, meshes, lastCall>>

\* the body starts to arrive: readyState 3
Loading(i) ==
    /\ i \in DOMAIN requests
    /\ requests[i].readyState = 2
    /\ requests' = [requests EXCEPT ![i] = fire(@, 3, @.status, "part")]
    /\ UNCHANGED <<rendererVars, meshes, lastCall>>

\* the body has arrived: readyState 4
Done(i) ==
    /\ i \in DOMAIN requests
    /\ requests[i].readyState = 3
    /\ requests' = [requests EXCEPT ![i] = fire(@, 4, @.status, "body")]
    /\ UNCHANGED <<rendererVars, meshes, lastCall>>

\* the request fails (network error): readyState 4 with status 0
NetworkError(i) ==
    /\ i \in DOMAIN requests
    /\ requests[i].readyState \in {1, 2, 3}
    /\ requests' = [requests EXCEPT ![i] = fire(@, 4, 0, "")]
    /\ UNCHANGED <<rendererVars, meshes, lastCall>>

(* --------------------------- specifications ----------------------------- *)
MeshNext ==
    \/ \E m \in MeshTargets : GetVertexBuffer(m)
    \/ \E m \in MeshTargets, vertex \in VertexLists : AddVertex(m, vertex)
    \/ \E m \in MeshTargets, x \in NumberLists : AddVertexAsNumbers(m, x)
    \/ \E m \in MeshTargets, vertices \in VertexContents : SetVertices(m, vertices)
    \/ \E m \in MeshTargets : Reset(m)

\* one mesh under every sequence of its calls
SpecMesh == Init /\ [][MeshNext]_vars

Next ==
    \/ \E ok \in BOOLEAN : SetupAdapterDone(ok)
    \/ SetupDeviceRejected
    \/ \E failAt \in ThrowingSteps \cup {"none"} : Finalize(failAt)
    \/ \E w \in Sizes : WindowResize(w)
    \/ \E use \in BOOLEAN : SetUsePostProcessing(use)
    \/ \E actors \in ActorLists, camera \in Cameras : Render(actors, camera)
    \/ \E m \in MeshTargets : AddVertex(m, <<VertexA>>)
    \/ GetDevice

\* the renderer under every order of the host's events and the caller's calls
Spec == Init /\ [][Next]_vars

LiveNext ==
    \/ \E ok \in BOOLEAN : SetupAdapterDone(ok)
    \/ SetupDeviceRejected
    \/ \E failAt \in ThrowingSteps \cup {"none"} : Finalize(failAt)
    \/ \E w \in Sizes : WindowResize(w)
    \/ \E actors \in ActorLists, camera \in Cameras : Render(actors, camera)

\* the renderer under a host whose event loop runs every callback that is
\* due: each request of setup settles, and the then-callback of the settled
\* promise runs
SpecLive ==
    /\ Init
    /\ [][LiveNext]_vars
    /\ WF_vars(\E ok \in BOOLEAN : SetupAdapterDone(ok))
    /\ WF_vars(SetupDeviceRejected
                  \/ \E failAt \in ThrowingSteps \cup {"none"} : Finalize(failAt))

FileNext ==
    \/ \E path \in Paths : ReadFile(path)
    \/ \E i \in 1..MaxRequests, status \in Statuses : HeadersReceived(i, status)
    \/ \E i \in 1..MaxRequests : Loading(i)
    \/ \E i \in 1..MaxRequests : Done(i)
    \/ \E i \in 1..MaxRequests : NetworkError(i)

\* the requests of FileReader under every order of the host's events
SpecFile == Init /\ [][FileNext]_vars

CompositeNext ==
    \/ \E ok \in BOOLEAN : SetupAdapterDone(ok)
    \/ SetupDeviceRejected
    \/ \E failAt \in ThrowingSteps \cup {"none"} : Finalize(failAt)
    \/ \E m \in MeshTargets : AddVertex(m, <<VertexA>>)
    \/ \E actors \in ActorLists, camera \in Cameras : Render(actors, camera)
    \/ \E frameTexture \in FrameTextures : RenderPostProcessing(frameTexture)

\* the renderer with its composite pass called between the scene's renders
SpecComposite == Init /\ [][CompositeNext]_vars

BindNext ==
    \/ \E ok \in BOOLEAN : SetupAdapterDone(ok)
    \/ SetupDeviceRejected
    \/ \E failAt \in ThrowingSteps \cup {"none"} : Finalize(failAt)
    \/ \E actors \in ActorLists, camera \in Cameras : Render(actors, camera)
    \/ \E bindingIndex \in GroupIndexes, buffers \in ResourceLists :
           BuildBindGroup(bindingIndex, buffers)

\* the renderer with its bind-group builder called on every list of values
SpecBind == Init /\ [][BindNext]_vars

(* ------------------------------ the claims ------------------------------ *)
Range(f) == {f[i] : i \in DOMAIN f}

\* the commands named c among the commands of the most recent call
Issued(c) == SelectSeq(lastCall.cmds, LAMBDA x : x.cmd = c)

\* the actors the most recent render drew, in the order of their draws
DrawnActors == [i \in 1..Len(Issued("draw")) |-> Issued("draw")[i].pipeline]

\* the last call was getVertexBuffer, right after a call op on the same mesh
GetVertexBufferAfter(op) ==
    /\ lastCall.op = "getVertexBuffer"
    /\ lastCall.prev.op = op
    /\ lastCall.prev.target = lastCall.target

RenderedWhenReady == lastCall.op = "render" /\ pc = "finalized"

\* C1: a render call submits exactly once (one encoder, one pass) when the
\* renderer is Ready, and issues nothing at all while the adapter or the
\* device is still being acquired, whatever the actor list and the camera.
RenderSubmitsOnceIffReady ==
    lastCall.op = "render" =>
        /\ pc = "finalized" =>
              /\ Len(Issued("submit")) = 1
              /\ Len(Issued("createCommandEncoder")) = 1
              /\ Len(Issued("beginRenderPass")) = 1
        /\ pc \in {"adapterPending", "devicePending"} =>
              lastCall.cmds = <<>> /\ lastCall.created = 0

\* a render of a two-actor list in the Ready state, with its one submission
RenderSubmitsOnceWitness ==
    /\ RenderedWhenReady
    /\ Len(lastCall.actors) = 2
    /\ Len(Issued("submit")) = 1

\* C2: after setVertices(v), the next getVertexBuffer builds a new buffer of
\* len(v) * 4 bytes from v instead of returning the handle cached before.
SetVerticesForcesRebuild ==
    GetVertexBufferAfter("setVertices") =>
        /\ lastCall.created = 1
        /\ lastCall.ret # lastCall.prev.ret
        /\ lastCall.ret # lastCall.before.vertexBuffer
        /\ lastCall.ret.size = Len(meshes[lastCall.target].vertices) * BytesPerFloat
        /\ lastCall.ret.data = meshes[lastCall.target].vertices

\* C3: a cached vertex buffer always has as many bytes as the vertex list
\* has floats times 4 (vertex count times 32).
CachedBufferMatchesVertices ==
    \A m \in Actors :
        meshes[m].vertexBuffer # NoBuffer =>
            meshes[m].vertexBuffer.size = Len(meshes[m].vertices) * BytesPerFloat

\* position, uv and normal of each vertex of the list, in that order
RECURSIVE Flattened(_)
Flattened(vertex) ==
    IF vertex = <<>> THEN <<>>
    ELSE Head(vertex).position \o Head(vertex).uv \o Head(vertex).normal
         \o Flattened(Tail(vertex))

\* C4: addVertex appends position, uv, normal of each vertex in that order
\* and drops the cached buffer, so the getVertexBuffer call after it builds a
\* new buffer holding the appended vertices.
AddVertexAppendsAndInvalidates ==
    /\ lastCall.op = "addVertex" =>
          /\ meshes[lastCall.target].vertices =
                 lastCall.before.vertices \o Flattened(lastCall.arg)
          /\ meshes[lastCall.target].vertexBuffer = NoBuffer
    /\ GetVertexBufferAfter("addVertex") =>
          /\ lastCall.created = 1
          /\ lastCall.ret.data = meshes[lastCall.target].vertices

\* C5: of two getVertexBuffer calls in a row on one mesh, the second returns
\* the handle the first returned, creates no buffer and writes nothing.
ConsecutiveGetsShareHandle ==
    GetVertexBufferAfter("getVertexBuffer") =>
        /\ lastCall.ret = lastCall.prev.ret
        /\ lastCall.created = 0
        /\ lastCall.writes = 0

\* two getVertexBuffer calls in a row on a mesh holding a vertex
ConsecutiveGetsWitness ==
    /\ GetVertexBufferAfter("getVertexBuffer")
    /\ lastCall.ret # NoBuffer
    /\ lastCall.ret.size > 0

\* C6: a Ready render whose actor list holds the camera issues no draw for
\* the camera and does draw every other element of the list.
CameraNeverDrawn ==
    (RenderedWhenReady /\ lastCall.camera \in Range(lastCall.actors)) =>
        /\ lastCall.camera \notin Range(DrawnActors)
        /\ \A i \in DOMAIN lastCall.actors :
              lastCall.actors[i] # lastCall.camera =>
                  lastCall.actors[i] \in Range(DrawnActors)

\* a Ready render of a list holding the camera and another camera object
CameraNeverDrawnWitness ==
    /\ RenderedWhenReady
    /\ lastCall.camera \in Range(lastCall.actors)
    /\ Range(DrawnActors) \cap Cameras # {}

\* C7: the draws of a Ready render are the input list without the camera:
\* one draw per other actor, in input order.
DrawsFollowInputOrder ==
    RenderedWhenReady =>
        DrawnActors = SelectSeq(lastCall.actors, LAMBDA a : a # lastCall.camera)

\* a Ready render that drew two different actors
DrawsFollowInputOrderWitness ==
    /\ RenderedWhenReady
    /\ Len(DrawnActors) = 2
    /\ DrawnActors[1] # DrawnActors[2]

\* C8: whenever the guard of render passes (device, context and depth view
\* set), the post-process context, the post-process pipeline, the sampler
\* and the resize listener are there too, also after finalize threw.
GuardImpliesFullyInitialized ==
    (device # Null /\ context # Null /\ depthView # NoView) =>
        /\ postProcessingContext # Null
        /\ postProcessingPipeline # Null
        /\ sampler # Null
        /\ listener

\* a render that passed the guard
GuardPassedWitness ==
    /\ lastCall.op = "render"
    /\ lastCall.cmds # <<>>
    /\ device # Null /\ context # Null /\ depthView # NoView

\* the steps the promise chain of setup() can take
LifecycleSteps ==
    {<<"adapterPending", "devicePending">>, <<"adapterPending", "adapterRejected">>,
     <<"devicePending", "deviceRejected">>, <<"devicePending", "finalized">>,
     <<"devicePending", "finalizeThrew">>}

\* C9: negotiation only moves forward, finalize runs at most once and only
\* with the adapter acquired, and a renderer whose device, context and depth
\* view are set keeps them under render, resize and setUsePostProcessing.
LifecycleForwardOnly ==
    /\ pc = "adapterPending" /\ finalizeCalls = 0 /\ device = Null
    /\ [][ /\ pc' # pc => <<pc, pc'>> \in LifecycleSteps
           /\ finalizeCalls' <= 1
           /\ finalizeCalls' > finalizeCalls =>
                 (pc = "devicePending" /\ adapter # Null)
           /\ pc = "finalized" =>
                 /\ pc' = "finalized"
                 /\ device' = device /\ device # Null
                 /\ context' = context /\ context # Null
                 /\ depthView' # NoView ]_vars

\* a resize handled by a Ready renderer
LifecycleWitness ==
    /\ pc = "finalized"
    /\ finalizeCalls = 1
    /\ lastCall.op = "resize"
    /\ depthView.size = windowSize

\* C10: exactly one of the rendering canvas and the post-processing canvas
\* is shown, from the end of construction on and around every
\* setUsePostProcessing call.
ExactlyOneSurfaceVisible ==
    renderingCanvas.visible # postProcessingRenderingCanvas.visible

\* post-processing was just turned on: the post-processing canvas is shown
ExactlyOneSurfaceWitness ==
    /\ lastCall.op = "setUsePostProcessing"
    /\ usePostProcessing
    /\ postProcessingRenderingCanvas.visible

\* the passes of the most recent call that are recorded on surface s
PassesOn(s) ==
    SelectSeq(lastCall.cmds, LAMBDA x : x.cmd = "beginRenderPass" /\ x.surface = s)

\* C11 (as stated): when the renderer is Ready and post-processing is
\* enabled, a render call leaves a submitted pass on the post-process
\* surface, the surface that is shown.
CompositeFollowsSceneRender ==
    (RenderedWhenReady /\ usePostProcessing) =>
        /\ Len(PassesOn("postProcessingContext")) = 1
        /\ Len(Issued("submit")) = 2

\* C12: setUsePostProcessing(enabled) stores the toggle and switches which
\* canvas is shown, and nothing else: in every renderer state it leaves the
\* device, both contexts, the depth view, the post-process pipeline, the
\* sampler, the quad mesh and every mesh as they were, creates no GPU
\* resource and records no command.
SetUsePostProcessingOnlySwitches ==
    [][lastCall'.op = "setUsePostProcessing" =>
          /\ UNCHANGED <<pc, adapter, device, context, postProcessingContext,
                         postProcessingPipeline, depthView, sampler, quadMesh,
                         listener, meshes>>
          /\ usePostProcessing' = lastCall'.arg[1]
          /\ renderingCanvas'.size = renderingCanvas.size
          /\ postProcessingRenderingCanvas'.size = postProcessingRenderingCanvas.size
          /\ lastCall'.created = 0
          /\ lastCall'.writes = 0
          /\ lastCall'.cmds = <<>>]_vars

SetUsePostProcessingWitness ==
    /\ lastCall.op = "setUsePostProcessing"
    /\ pc = "finalized"
    /\ usePostProcessing
    /\ postProcessingRenderingCanvas.visible
    /\ sampler # Null

\* the states in which the adapter or the device could not be acquired
NegotiationFailed == pc \in {"adapterRejected", "deviceRejected"}

\* C13: a failed adapter or device acquisition is terminal: finalize has not
\* run and never runs, nothing is asked for again, the device stays unbound,
\* the renderer never becomes Ready, and every render call from then on
\* records no command and submits nothing.
NegotiationFailureIsTerminal ==
    [][NegotiationFailed =>
          /\ finalizeCalls = 0 /\ finalizeCalls' = 0
          /\ device = Null /\ device' = Null
          /\ ~listener /\ ~listener'
          /\ pc' = pc
          /\ adapter' = adapter
          /\ lastCall'.op = "render" =>
                 /\ lastCall'.cmds = <<>>
                 /\ lastCall'.created = 0
                 /\ lastCall'.writes = 0
                 /\ meshes' = meshes]_vars

NegotiationFailureWitness ==
    /\ pc = "deviceRejected"
    /\ lastCall.op = "render"
    /\ lastCall.actors # <<>>
    /\ lastCall.actors[1] # lastCall.camera
    /\ lastCall.cmds = <<>>

\* C14: a resize notification delivered when the renderer is Ready leaves
\* both canvases at the host's new size and the depth view rebuilt at the
\* rendering canvas's new size, within the one handler run; so whenever the
\* guard of render passes, and in every pass a render begins, the depth view
\* has the rendering canvas's current size.
DepthViewTracksPrimarySurface ==
    /\ (lastCall.op = "resize" /\ pc = "finalized") =>
           /\ renderingCanvas.size = lastCall.arg[1]
           /\ postProcessingRenderingCanvas.size = lastCall.arg[1]
           /\ depthView = [present |-> TRUE, size |-> lastCall.arg[1]]
    /\ renderGuard(Renderer) =>
           /\ depthView.present
           /\ depthView.size = renderingCanvas.size
    /\ (lastCall.op = "render" /\ lastCall.cmds # <<>>) =>
           /\ Len(Issued("beginRenderPass")) = 1
           /\ Issued("beginRenderPass")[1].view = depthView
           /\ Issued("beginRenderPass")[1].view.size = renderingCanvas.size

DepthViewTracksWitness ==
    /\ lastCall.op = "resize"
    /\ pc = "finalized"
    /\ depthView.size = lastCall.arg[1]
    /\ renderingCanvas.size = windowSize
    /\ windowSize = lastCall.arg[1]

\* the values of the most recent builder call that are neither a buffer, nor
\* a texture, nor a sampler
Unrecognized ==
    {i \in DOMAIN lastCall.arg :
        lastCall.arg[i].kind \notin {"buffer", "texture", "sampler"}}

\* C15 (as stated): building a bind group from a list that holds a value
\* that is neither a buffer, nor a texture, nor a sampler raises an error and
\* produces no bind group.
UnrecognizedResourceFailsLoudly ==
    (lastCall.op = "setupUniformBindGroup" /\ Unrecognized # {}) =>
        /\ lastCall.threw
        /\ lastCall.cmds[1].group.entries = <<>>
        /\ lastCall.created = 0

\* C16: while the device is not bound, also after a failed negotiation,
\* getDevice() raises an error and returns nothing, and render() returns
\* without an error and without any effect; once the device is bound it
\* stays the same device and getDevice() returns it on every call.
GetDeviceLoudRenderSilent ==
    [][/\ lastCall'.op = "getDevice" =>
              IF device' = Null
              THEN lastCall'.threw /\ lastCall'.arg = <<>>
              ELSE ~lastCall'.threw /\ lastCall'.arg = <<device'>>
       /\ (lastCall'.op = "render" /\ device' = Null) =>
              /\ ~lastCall'.threw
              /\ lastCall'.cmds = <<>>
              /\ lastCall'.created = 0
              /\ lastCall'.writes = 0
              /\ UNCHANGED <<rendererVars, meshes>>
       /\ device # Null => device' = device]_vars

GetDeviceWitness ==
    /\ lastCall.op = "getDevice"
    /\ pc = "deviceRejected"
    /\ lastCall.threw

\* the most recent call was a composite pass
Composite == lastCall.op = "renderPostProcessing"

\* C17: every composite pass, whatever the frame texture, the scene's
\* meshes and the renders before it, builds its bind group from exactly two
\* resources, a view of the frame texture at slot 0 and the sampler at slot
\* 1, draws the renderer's quad mesh once with vertex count 6 (48 floats by
\* 8), ends the pass once and submits once.
CompositeBindsTwoDrawsQuad ==
    Composite =>
        /\ Len(Issued("setBindGroup")) = 1
        /\ LET group == Issued("setBindGroup")[1].group
           IN  /\ ~group.threw
               /\ group.pipeline = postProcessingPipeline
               /\ Len(group.entries) = 2
               /\ group.entries[1] =
                      [binding |-> 0,
                       resource |-> [as |-> "textureView", of |-> lastCall.arg[1]]]
               /\ group.entries[2].binding = 1
               /\ group.entries[2].resource.as = "entry"
               /\ group.entries[2].resource.of.kind = "sampler"
               /\ group.entries[2].resource.of.label = sampler
        /\ Len(quadMesh.vertices) = 6 * FloatsPerVertex
        /\ Len(Issued("draw")) = 1
        /\ Issued("draw")[1].vertexCount = <<6, 0>>
        /\ Issued("draw")[1].pipeline = postProcessingPipeline
        /\ Issued("draw")[1].buffer = quadMesh.vertexBuffer
        /\ Issued("draw")[1].buffer.mesh = "quad"
        /\ Len(PassesOn("postProcessingContext")) = 1
        /\ Len(Issued("beginRenderPass")) = 1
        /\ Len(Issued("end")) = 1
        /\ Len(Issued("submit")) = 1
        /\ lastCall.cmds[Len(lastCall.cmds) - 1].cmd = "end"
        /\ lastCall.cmds[Len(lastCall.cmds)].cmd = "submit"

CompositeWitness ==
    /\ Composite
    /\ lastCall.arg[1].label = "frame2"
    /\ lastCall.created = 0
    /\ Len(meshes["a1"].vertices) > 0
    /\ Issued("draw")[1].vertexCount = <<6, 0>>

\* the mesh a draw command of the most recent call was issued for
DrawnMesh(d) ==
    IF lastCall.op = "renderPostProcessing" THEN quadMesh ELSE meshes[d.pipeline]

\* C18: a draw issued for a mesh whose vertex list holds N floats, N a
\* multiple of 8, requests exactly N / 8 vertices, with no remainder; N is
\* the length of the mesh's vertex list when the draw is issued, whatever
\* the size of the buffer that is bound.
DrawRequestsEighthOfFloats ==
    lastCall.op \in {"render", "renderPostProcessing"} =>
        \A i \in 1..Len(Issued("draw")) :
            LET d == Issued("draw")[i]
                N == Len(DrawnMesh(d).vertices)
            IN  N % FloatsPerVertex = 0 =>
                    /\ d.vertexCount = <<N \div FloatsPerVertex, 0>>
                    /\ d.vertexCount[1] * FloatsPerVertex = N

DrawRequestsWitness ==
    /\ RenderedWhenReady
    /\ Len(Issued("draw")) = 1
    /\ Issued("draw")[1].pipeline = "a1"
    /\ Issued("draw")[1].vertexCount = <<2, 0>>
    /\ Issued("draw")[1].buffer.size = 0

\* the commands a draw is made of
DrawCmds == {"setPipeline", "setVertexBuffer", "setBindGroup", "draw"}

\* C19: a render call in the Ready state records, in this order: one
\* command encoder, the current view of the primary context, one render pass
\* on it (color cleared to 0.09/0.09/0.09/1.0, depth cleared to 1.0, the
\* renderer's depth view attached), the draws, the end of the pass and one
\* submission; nothing of a draw lies before the begin or after the end, and
\* an empty actor list gives the same frame with no draw.
RenderFollowsProtocol ==
    RenderedWhenReady =>
        LET c == lastCall.cmds
            n == Len(lastCall.cmds)
        IN  /\ n >= 5
            /\ c[1] = Cmd("createCommandEncoder")
            /\ c[2].cmd = "getCurrentTexture" /\ c[2].surface = context
            /\ c[3].cmd = "beginRenderPass" /\ c[3].surface = context
            /\ c[3].view = depthView
            /\ c[3].clear = [color |-> <<9, 9, 9, 100>>, colorLoadOp |-> "clear",
                             depth |-> 100, depthLoadOp |-> "clear"]
            /\ \A i \in 4..(n - 2) : c[i].cmd \in DrawCmds
            /\ c[n - 1] = Cmd("end")
            /\ c[n] = Cmd("submit")
            /\ lastCall.actors = <<>> => n = 5
            /\ Len(Issued("draw")) * 4 = n - 5

RenderFollowsProtocolWitness ==
    /\ RenderedWhenReady
    /\ lastCall.actors = <<>>
    /\ Len(lastCall.cmds) = 5
    /\ Issued("draw") = <<>>
    /\ Len(Issued("submit")) = 1

\* what the builder makes of one value: a buffer is bound whole, a texture
\* through a new view, a sampler as it is
BoundAs(kind) ==
    CASE kind = "buffer" -> "bufferBinding"
      [] kind = "texture" -> "textureView"
      [] kind = "sampler" -> "entry"

\* the bind groups bound by the draws of the most recent render
DrawGroups == [i \in 1..Len(Issued("setBindGroup")) |-> Issued("setBindGroup")[i].group]

\* C20: the bind-group builder binds the i-th value it is given to slot
\* i - 1 of the layout at the group index it is given, for every i, none
\* skipped, doubled or moved, a buffer as a whole-buffer binding, a texture
\* as a new view, a sampler as itself; and the group of every actor draw
\* holds, in slots 0 to 3, the actor's transformation matrix, the camera's
\* view matrix, the camera's projection buffer and the actor's rotation
\* matrix, at group index 0.
BindGroupIsPositional ==
    /\ (lastCall.op = "setupUniformBindGroup" /\ Unrecognized = {}) =>
           LET group == lastCall.cmds[1].group
           IN  /\ ~lastCall.threw
               /\ group.pipeline = postProcessingPipeline
               /\ group.layout \in GroupIndexes
               /\ Len(group.entries) = Len(lastCall.arg)
               /\ \A i \in DOMAIN lastCall.arg :
                      /\ group.entries[i].binding = i - 1
                      /\ group.entries[i].resource.of = lastCall.arg[i]
                      /\ group.entries[i].resource.as = BoundAs(lastCall.arg[i].kind)
    /\ RenderedWhenReady =>
           /\ Len(DrawGroups) = Len(DrawnActors)
           /\ \A i \in DOMAIN DrawGroups :
                  /\ DrawGroups[i].layout = 0
                  /\ DrawGroups[i].pipeline = DrawnActors[i]
                  /\ [j \in 1..Len(DrawGroups[i].entries) |->
                          <<DrawGroups[i].entries[j].binding,
                            DrawGroups[i].entries[j].resource.as,
                            DrawGroups[i].entries[j].resource.of.label,
                            DrawGroups[i].entries[j].resource.of.owner>>]
                     = << <<0, "bufferBinding", "transformationMatrix", DrawnActors[i]>>,
                          <<1, "bufferBinding", "viewTransformationMatrix", lastCall.camera>>,
                          <<2, "bufferBinding", "projectionBuffer", lastCall.camera>>,
                          <<3, "bufferBinding", "rotationMatrix", DrawnActors[i]>> >>

BindGroupIsPositionalWitness ==
    /\ lastCall.op = "setupUniformBindGroup"
    /\ Len(lastCall.arg) = 2
    /\ lastCall.arg[1].kind = "texture"
    /\ lastCall.arg[2].kind = "sampler"
    /\ lastCall.cmds[1].group.entries[2].binding = 1
    /\ \A a \in Actors : meshes[a].built > 0

DrawCountMatchesBoundBuffer ==
    lastCall.op = "render" =>
        \A i \in 1..Len(Issued("draw")) :
            LET d == Issued("draw")[i]
            IN  /\ d.vertexCount[2] = 0
                /\ d.vertexCount[1] * FloatsPerVertex * BytesPerFloat = d.buffer.size

\* C23: for every readFile call the callback has been invoked exactly once,
\* with the response text, when the request is complete (readyState 4) with
\* status 200, and not at all in every other case: before the request
\* completes, and after it completed with another status or failed.
CallbackOnlyOnDone200 ==
    \A i \in DOMAIN requests :
        IF requests[i].readyState = 4 /\ requests[i].status = 200
        THEN requests[i].calls = <<requests[i].responseText>>
        ELSE requests[i].calls = <<>>

CallbackWitness ==
    /\ Len(requests) = 2
    /\ requests[1].readyState = 4 /\ requests[1].status = 200
    /\ requests[1].calls = <<"body">>
    /\ requests[2].readyState = 4 /\ requests[2].status = 404
    /\ requests[2].calls = <<>>

====
